---------------------------- MODULE Spec2Model ----------------------------
(***************************************************************************)
(* A model of the ActiveLook protocol stack of activelook-rs:              *)
(*   - the packet framer of src/protocol.rs (Packet::new,                  *)
(*     new_with_query_id, to_bytes, RawPacket::from_bytes, the typed       *)
(*     CommandPacket / ResponsePacket conversions),                        *)
(*   - the command / response codec of src/commands.rs, as far as the      *)
(*     framer and the client depend on it,                                 *)
(*   - the client of src/protocol.rs (send, send_command_expect_response,  *)
(*     read_tx_char) with its query id counter.                            *)
(* Bytes are integers 0..255 and byte strings are sequences, 1-based: the  *)
(* Rust index i is the TLA+ index i + 1.                                   *)
(***************************************************************************)
EXTENDS Integers, Sequences, FiniteSets, TLC

VARIABLES
    \* ---- framer: one value pushed through encode / decode -------------
    val,        \* the Command or Response handed to Packet::new
    qid,        \* the query id handed to new_with_query_id (an Option)
    pkt,        \* the Packet built (an Option)
    bytes,      \* the byte buffer under consideration
    origin,     \* "none", "to_bytes" (emitted by to_bytes) or "wire"
    raw,        \* result of RawPacket::from_bytes(bytes)
    typed,      \* result of CommandPacket / ResponsePacket::from_bytes(bytes)
    \* ---- client ------------------------------------------------------
    query_id,   \* ActiveLookClient.query_id
    tx,         \* what the client handed to tx.write, in order
    rx,         \* the notification stream: the reads still to come
    pc,         \* "idle", "waiting" (inside the read loop) or "panicked"
    call,       \* the call in progress or last finished
    reads,      \* number of reads performed by the current call
    \* ---- codec and chunker: one value encoded, split, decoded ----------
    value,      \* the Command or Response under consideration
    chunk_size, \* the chunk_size handed to as_bytes_chunks
    chunks,     \* result of value.as_bytes_chunks(chunk_size)
    other,      \* result of from_data(value.id(), Some(value.data_bytes()))
    encoded,    \* result of value.data_bytes()
    input,      \* a tag and an Option<&[u8]> handed to from_data
    parsed,     \* result of from_data(input.id, input.data)
    \* ---- server ------------------------------------------------------
    server      \* ActiveLookServer: its two streams and its last call

framerVars == <<val, qid, pkt, bytes, origin, raw, typed>>
clientVars == <<query_id, tx, rx, pc, call, reads>>
codecVars == <<value, chunk_size, chunks, other, encoded, input, parsed>>
serverVars == <<server>>
vars == <<val, qid, pkt, bytes, origin, raw, typed,
          query_id, tx, rx, pc, call, reads,
          value, chunk_size, chunks, other, encoded, input, parsed,
          server>>

-----------------------------------------------------------------------------
(* Options and results                                                     *)

None == [some |-> FALSE, v |-> <<>>]
Some(x) == [some |-> TRUE, v |-> x]

Min(a, b) == IF a < b THEN a ELSE b

-----------------------------------------------------------------------------
(* Program constants                                                       *)

PACKET_MIN_SIZE == 5
PACKET_MAX_SIZE == 533
PACKET_START == 255
PACKET_END == 170
NAME_LEN == 12
TEXT_LEN == 255


-----------------------------------------------------------------------------
(* Integers on the wire (deku, big-endian unless a field says otherwise)    *)

RECURSIVE FromBE(_)
\* u16::from_be_bytes, u32::from_be_bytes, ...: the unsigned value of a
\* big-endian byte string.
FromBE(bs) ==
    IF bs = <<>> THEN 0
    ELSE FromBE(SubSeq(bs, 1, Len(bs) - 1)) * 256 + bs[Len(bs)]

RECURSIVE ToBE(_, _)
\* to_be_bytes: the n-byte big-endian representation of an unsigned value.
ToBE(n, u) ==
    IF n = 0 THEN <<>> ELSE Append(ToBE(n - 1, u \div 256), u % 256)

Reverse(s) == [i \in 1..Len(s) |-> s[Len(s) + 1 - i]]

Pow256(n) == CASE n = 1 -> 256 [] n = 2 -> 65536 [] n = 3 -> 16777216

\* Two's complement reading of an n-byte unsigned value (n <= 2 in the catalog).
ToSigned(n, u) == IF u >= Pow256(n) \div 2 THEN u - Pow256(n) ELSE u
FromSigned(n, x) == IF x < 0 THEN x + Pow256(n) ELSE x

-----------------------------------------------------------------------------
(* Field layouts of the catalog (the deku attributes of commands.rs)        *)

Fld(k, n, sg, le, ids, sub) ==
    [k |-> k, n |-> n, sg |-> sg, le |-> le, ids |-> ids, sub |-> sub]
U(n) == Fld("int", n, FALSE, FALSE, {}, <<>>)       \* u8 / u16 / u32, big-endian
I(n) == Fld("int", n, TRUE, FALSE, {}, <<>>)        \* i8 / i16, big-endian
UNative(n) == Fld("int", n, FALSE, TRUE, {}, <<>>)  \* no endian attribute: target order
Enum(ids) == Fld("enum", 1, FALSE, FALSE, ids, <<>>)
Bool == Fld("bool", 1, FALSE, FALSE, {}, <<>>)
CStr(cap) == Fld("cstr", cap, FALSE, FALSE, {}, <<>>)
Arr(n) == Fld("arr", n, FALSE, FALSE, {}, <<>>)     \* [u8; n]
Count(idx) == Fld("count", idx, FALSE, FALSE, {}, <<>>) \* Vec<u8>, count = field idx
All(sub) == Fld("all", 0, FALSE, FALSE, {}, sub)    \* read_all Vec of sub-structures

PointL == <<I(2), I(2)>>
ShiftL == <<I(2), I(2)>>
LayoutPositionL == <<U(2), U(1)>>
ImgListItemL == <<U(1), U(2), U(2)>>
FontItemL == <<U(1), U(1)>>
CfgItemL == <<CStr(NAME_LEN), U(4), U(4), U(1), U(1), U(1)>>

\* LayoutParameters; sizeIdx is the position of its `size` field in the variant.
LayoutParametersL(sizeIdx) ==
    <<U(1)>> \o LayoutPositionL \o <<U(2), U(1), U(1), U(1), U(1), U(1)>>
        \o LayoutPositionL \o <<U(1), U(1), Count(sizeIdx)>>

DemoIDs == {0, 1, 2}
LedStates == {0, 1, 2, 3}
DeviceInfos == 0..16
HoldFlushActions == {0, 1, 255}
ImgFormats == {0, 1, 2, 3, 8}
StreamImgFormats == {1, 2}
CmdErrors == {1, 2, 3, 4}

\* Tags of the Command catalog.
CommandIds ==
    {0, 1, 2, 3, 5, 6, 8, 9, 10, 16, 32, 33, 34} \cup (48..57) \cup {60}
    \cup {65, 66, 68, 70, 71, 80, 82, 83} \cup (96..106) \cup (112..116)
    \cup (128..134) \cup (149..153) \cup {165} \cup (208..216)
    \cup {224, 225, 227}

\* The fields of the Command variant with tag id, in declaration order.
CommandLayout(id) ==
    CASE id \in {1, 5, 6, 10, 71, 80, 100, 115, 128, 133, 153, 165,
                 211, 214, 215, 216} -> <<>>
      [] id \in {0, 2, 16, 48, 70, 82, 83, 97, 99, 103, 114, 116,
                 129, 130, 131, 132, 134, 150, 152} -> <<U(1)>>
      [] id = 3 -> <<Enum(DemoIDs)>>
      [] id = 8 -> <<Enum(LedStates)>>
      [] id = 9 -> ShiftL
      [] id \in {32, 33, 34} -> <<Bool>>
      [] id = 49 -> PointL
      [] id \in {50, 51, 52} -> PointL \o PointL
      [] id \in {53, 54} -> PointL \o <<U(1)>>
      [] id = 55 -> PointL \o <<U(1), U(1), U(1), CStr(TEXT_LEN)>>
      [] id = 56 -> <<U(1), UNative(2), All(PointL)>>
      [] id = 57 -> <<Enum(HoldFlushActions)>>
      [] id = 60 -> PointL \o <<U(1), I(2), I(2), U(1)>>
      [] id = 65 -> <<U(1), U(4), U(2), Enum(ImgFormats), Count(2)>>
      [] id = 66 -> <<U(1)>> \o PointL
      [] id = 68 -> <<U(4), U(2)>> \o PointL \o <<Enum(StreamImgFormats), Count(1)>>
      [] id = 96 -> <<U(1)>> \o LayoutParametersL(2)
      [] id \in {98, 105} -> <<U(1), CStr(TEXT_LEN)>>
      [] id \in {101, 104} -> <<U(1)>> \o LayoutPositionL
      [] id \in {102, 106} ->
            <<U(1)>> \o LayoutPositionL \o <<CStr(TEXT_LEN), All(<<U(1)>>)>>
      [] id = 112 -> <<U(1), U(1)>>
      [] id = 113 -> <<U(1)>> \o PointL \o <<U(2), U(2), U(1), U(1), U(1)>>
      [] id = 149 -> <<U(1), U(4), U(4), U(2), U(1), U(4)>>
      [] id = 151 -> <<U(1), U(1), U(2), U(1)>> \o PointL
      [] id = 208 -> <<CStr(NAME_LEN), U(4), U(4)>>
      [] id \in {209, 210, 213} -> <<CStr(NAME_LEN)>>
      [] id = 212 -> <<CStr(NAME_LEN), CStr(NAME_LEN), U(4)>>
      [] id \in {224, 225} -> <<Arr(4)>>
      [] id = 227 -> <<Enum(DeviceInfos)>>

\* Tags of the Response catalog.
ResponseIds ==
    {5, 6, 10, 71, 80, 100, 103, 115, 116, 129, 133, 153, 165,
     210, 211, 215, 216, 226, 227}

\* The fields of the Response variant with tag id, in declaration order.
ResponseLayout(id) ==
    CASE id \in {5, 129, 216} -> <<U(1)>>
      [] id = 6 -> <<Arr(4), U(1), U(1), Arr(3)>>
      [] id = 10 -> <<I(1), I(1), U(1), U(1), U(1)>>
      [] id = 71 -> <<All(ImgListItemL)>>
      [] id = 80 -> <<All(FontItemL)>>
      [] id \in {100, 115, 133, 153, 227} -> <<All(<<U(1)>>)>>
      [] id = 103 -> LayoutParametersL(1)
      [] id = 116 -> PointL \o <<U(2), U(2), U(1), U(1), U(1)>>
      [] id = 165 -> <<U(4)>>
      [] id = 210 -> <<U(4), U(1), U(1), U(1), U(1), U(1)>>
      [] id = 211 -> <<All(CfgItemL)>>
      [] id = 215 -> <<U(4), U(4)>>
      [] id = 226 -> <<U(1), Enum(CmdErrors), U(1)>>

-----------------------------------------------------------------------------
(* Codec: deku readers                                                      *)

Fail == [ok |-> FALSE, v |-> 0, rest |-> <<>>]
Got(x, rest) == [ok |-> TRUE, v |-> x, rest |-> rest]
Drop(bs, n) == SubSeq(bs, n + 1, Len(bs))

\* read_fixed_size_cstr: up to len bytes, stopping after the first NUL; a
\* byte that is missing before either end is a read error.  Each byte
\* becomes the char of that code point.
ReadFixedSizeCStr(bs, len) ==
    LET m == Min(len, Len(bs))
        nul == {i \in 1..m : bs[i] = 0}
    IN  IF nul # {}
        THEN LET j == CHOOSE i \in nul : \A k \in nul : i <= k
             IN  Got(SubSeq(bs, 1, j - 1), Drop(bs, j))
        ELSE IF m = len THEN Got(SubSeq(bs, 1, len), Drop(bs, len))
        ELSE Fail

RECURSIVE ReadFields(_, _, _)
RECURSIVE ReadAll(_, _, _)

\* One field read from the front of bs; acc holds the fields read before it.
ReadField(f, bs, acc) ==
    CASE f.k = "int" ->
            IF Len(bs) < f.n THEN Fail
            ELSE LET b == SubSeq(bs, 1, f.n)
                     u == FromBE(IF f.le THEN Reverse(b) ELSE b)
                 IN  Got(IF f.sg THEN ToSigned(f.n, u) ELSE u, Drop(bs, f.n))
      [] f.k = "enum" ->
            IF Len(bs) < 1 \/ bs[1] \notin f.ids THEN Fail
            ELSE Got(bs[1], Drop(bs, 1))
      [] f.k = "bool" ->
            IF Len(bs) < 1 \/ bs[1] \notin {0, 1} THEN Fail
            ELSE Got(bs[1] = 1, Drop(bs, 1))
      [] f.k = "cstr" -> ReadFixedSizeCStr(bs, f.n)
      [] f.k = "arr" ->
            IF Len(bs) < f.n THEN Fail
            ELSE Got(SubSeq(bs, 1, f.n), Drop(bs, f.n))
      [] f.k = "count" ->
            IF Len(bs) < acc[f.n] THEN Fail
            ELSE Got(SubSeq(bs, 1, acc[f.n]), Drop(bs, acc[f.n]))
      [] f.k = "all" ->
            IF f.sub = <<U(1)>> THEN Got(bs, <<>>)     \* Vec<u8>: the bytes left
            ELSE ReadAll(f.sub, bs, <<>>)

\* The fields of a layout read in order (the derived DekuRead of a variant).
ReadFields(layout, bs, acc) ==
    IF layout = <<>> THEN Got(acc, bs)
    ELSE LET r == ReadField(Head(layout), bs, acc)
         IN  IF r.ok THEN ReadFields(Tail(layout), r.rest, Append(acc, r.v))
             ELSE Fail

\* #[deku(read_all)]: items are read until the input ends; an incomplete
\* last item is a read error.
ReadAll(sub, bs, items) ==
    IF bs = <<>> THEN Got(items, <<>>)
    ELSE LET r == ReadFields(sub, bs, <<>>)
         IN  IF r.ok THEN ReadAll(sub, r.rest, Append(items, r.v)) ELSE Fail

ParseError == [ok |-> FALSE, err |-> "ParseError", v |-> 0]
CodecOk(dir, id, fields) ==
    [ok |-> TRUE, err |-> "none", v |-> [dir |-> dir, id |-> id, f |-> fields]]

\* Option<&[u8]> appended after the tag byte: None appends nothing.
DataOf(data) == IF data.some THEN data.v ELSE <<>>

\* CommandFromData rejecting a payload of None.
CommandFromData_NeedsPayload(id, data) ==
    IF id \notin CommandIds \/ ~data.some THEN ParseError
    ELSE LET r == ReadFields(CommandLayout(id), data.v, <<>>)
         IN  IF r.ok THEN CodecOk("cmd", id, r.v) ELSE ParseError

\* Command::from_data(id, data); bytes left after the last field are ignored.
CommandFromData(id, data) ==
    IF id \notin CommandIds THEN ParseError
    ELSE LET r == ReadFields(CommandLayout(id), DataOf(data), <<>>)
         IN  IF r.ok THEN CodecOk("cmd", id, r.v) ELSE ParseError

\* ResponseFromData rejecting bytes left after the last field.
ResponseFromData_NothingLeft(id, data) ==
    IF id \notin ResponseIds THEN ParseError
    ELSE LET r == ReadFields(ResponseLayout(id), DataOf(data), <<>>)
         IN  IF r.ok /\ r.rest = <<>> THEN CodecOk("resp", id, r.v) ELSE ParseError

\* Response::from_data(id, data).
ResponseFromData(id, data) ==
    IF id \notin ResponseIds THEN ParseError
    ELSE LET r == ReadFields(ResponseLayout(id), DataOf(data), <<>>)
         IN  IF r.ok THEN CodecOk("resp", id, r.v) ELSE ParseError

-----------------------------------------------------------------------------
(* Codec: deku writers                                                      *)

\* str::as_bytes of a String whose chars are the code points cs (UTF-8, code
\* points below 0x800).
RECURSIVE Utf8(_)
Utf8(cs) ==
    CASE Len(cs) = 0 -> <<>>
      [] Len(cs) = 1 ->
            IF cs[1] < 128 THEN <<cs[1]>>
            ELSE <<192 + (cs[1] \div 64), 128 + (cs[1] % 64)>>
      [] OTHER ->
            LET h == Len(cs) \div 2
            IN  Utf8(SubSeq(cs, 1, h)) \o Utf8(SubSeq(cs, h + 1, Len(cs)))

\* String::truncate(len) panics when the string is longer than len bytes and
\* byte offset len is inside a char (the byte there is a UTF-8 continuation
\* byte).
TruncatePanics(cs, len) ==
    LET b == Utf8(cs)
    IN  Len(b) > len /\ b[len + 1] \in 128..191

\* write_fixed_size_cstr where truncate returns: the string cut to len
\* bytes, then one NUL if the cut string is shorter than len.
WriteFixedSizeCStr(cs, len) ==
    LET b == Utf8(cs)
        s == SubSeq(b, 1, Min(Len(b), len))
    IN  IF Len(s) < len THEN Append(s, 0) ELSE s

RECURSIVE WriteFields(_, _)
RECURSIVE WriteAll(_, _)

WriteField(f, x) ==
    CASE f.k = "int" ->
            LET b == ToBE(f.n, IF f.sg THEN FromSigned(f.n, x) ELSE x)
            IN  IF f.le THEN Reverse(b) ELSE b
      [] f.k = "enum" -> <<x>>
      [] f.k = "bool" -> <<IF x THEN 1 ELSE 0>>
      [] f.k = "cstr" -> WriteFixedSizeCStr(x, f.n)
      [] f.k \in {"arr", "count"} -> x
      [] f.k = "all" -> IF f.sub = <<U(1)>> THEN x ELSE WriteAll(f.sub, x)

\* The fields of a variant written in declaration order.
WriteFields(layout, fields) ==
    IF layout = <<>> THEN <<>>
    ELSE WriteField(Head(layout), Head(fields))
            \o WriteFields(Tail(layout), Tail(fields))

WriteAll(sub, items) ==
    IF items = <<>> THEN <<>>
    ELSE WriteFields(sub, Head(items)) \o WriteAll(sub, Tail(items))

\* A value is [dir, id, f]: dir is "cmd" or "resp", the catalog it belongs to.
LayoutOf(x) == IF x.dir = "cmd" THEN CommandLayout(x.id) ELSE ResponseLayout(x.id)

\* Serializable::id: the variant's tag (deku_id).
Id(x) == x.id

\* Every text of the fields (of a variant, or of the items of its trailing
\* list) passes the test.
TextsOf(layout, fields, test(_, _)) ==
    \A i \in DOMAIN layout :
        /\ layout[i].k = "cstr" => test(fields[i], layout[i].n)
        /\ (layout[i].k = "all" /\ layout[i].sub # <<U(1)>>) =>
              \A j \in DOMAIN fields[i], m \in DOMAIN layout[i].sub :
                  layout[i].sub[m].k = "cstr" => test(fields[i][j][m], layout[i].sub[m].n)

\* No text of the value makes write_fixed_size_cstr panic: to_bytes(), and
\* so data_bytes() and as_bytes_chunks(), return.
TruncateReturns(text, cap) == ~TruncatePanics(text, cap)
Encodes(x) == TextsOf(LayoutOf(x), x.f, TruncateReturns)

\* Serializable::data_bytes where it returns: to_bytes() without its first
\* byte, the tag.
DataBytes(x) == Tail(<<x.id>> \o WriteFields(LayoutOf(x), x.f))

\* The outcome of value.data_bytes().
Encoded(bs) == [kind |-> "Ok", v |-> bs]
EncodePanic == [kind |-> "Panic", v |-> <<>>]
DataBytesOf(x) == IF Encodes(x) THEN Encoded(DataBytes(x)) ELSE EncodePanic

-----------------------------------------------------------------------------
(* Chunker: as_bytes_chunks (src/commands.rs)                               *)

\* ImgFormat::nb_of_bytes: bytes of one image line of width pixels.
ImgFormatNbOfBytes(format, width) ==
    CASE format = 8 -> width
      [] format = 0 -> (width + 1) \div 2
      [] format = 1 -> (width + 7) \div 8
      [] OTHER -> width

\* StreamImgFormat::nb_of_bytes
StreamImgFormatNbOfBytes(format, width) ==
    IF format = 1 THEN (width + 7) \div 8 ELSE width

\* Results of as_bytes_chunks: Ok((id, chunks)); a panic; or no return at
\* all, the loop pushing one more chunk at every turn without end.
ChunksOk(id, res) == [kind |-> "Ok", id |-> id, v |-> res]
ChunksPanic == [kind |-> "Panic", id |-> 0, v |-> <<>>]
ChunksDiverge == [kind |-> "Diverges", id |-> 0, v |-> <<>>]

\* let end = cmp::min(len, index + chunk)
ChunkEnd_OneMore(len, index, chunk) == Min(len, index + chunk + 1)
ChunkEnd(len, index, chunk) == Min(len, index + chunk)

\* while index < len { push data[index..end]; index = end }, for chunk > 0:
\* turn i of the loop starts at index + (i - 1) * chunk, and the loop takes
\* as many turns as there are starts below len.
ChunkLoop(data, index, chunk, res) ==
    LET len == Len(data)
        turns == IF index < len THEN (len - index + chunk - 1) \div chunk ELSE 0
        start(i) == index + (i - 1) * chunk
    IN  res \o [i \in 1..turns |->
                    SubSeq(data, start(i) + 1, ChunkEnd(len, start(i), chunk))]

\* The loop with its entry: with chunk = 0 and data left, end = index at
\* every turn, so index never moves and the loop never ends.
ChunkAll(id, data, index, chunk, res) ==
    IF chunk = 0 /\ index < Len(data) THEN ChunksDiverge
    ELSE ChunksOk(id, ChunkLoop(data, index, chunk, res))

\* Command::as_bytes_chunks(chunk_size): ImgSave (0x41) and ImgStream (0x44)
\* put their header in a first chunk and align the rest to the image line;
\* chunk_size / byte_align panics when byte_align is 0.
CommandAsBytesChunks(self, chunk_size_) ==
    LET data == DataBytes(self)
        header_len == CASE self.id = 65 -> 8 [] self.id = 68 -> 11 [] OTHER -> 0
        byte_align ==
            CASE self.id = 65 -> ImgFormatNbOfBytes(self.f[4], self.f[3])
              [] self.id = 68 -> StreamImgFormatNbOfBytes(self.f[5], self.f[2])
              [] OTHER -> 1
        res == IF header_len > 0 THEN <<SubSeq(data, 1, header_len)>> ELSE <<>>
    IN  IF byte_align = 0 THEN ChunksPanic
        ELSE LET nblines == chunk_size_ \div byte_align
                 chunk == nblines * byte_align
             IN  ChunkAll(Id(self), data, header_len, chunk, res)

\* Response::as_bytes_chunks(chunk_size)
ResponseAsBytesChunks(self, chunk_size_) ==
    ChunkAll(Id(self), DataBytes(self), 0, chunk_size_, <<>>)

\* self.as_bytes_chunks(chunk_size): data_bytes() is its first call.
AsBytesChunksOf(self, chunk_size_) ==
    IF ~Encodes(self) THEN ChunksPanic
    ELSE IF self.dir = "cmd" THEN CommandAsBytesChunks(self, chunk_size_)
    ELSE ResponseAsBytesChunks(self, chunk_size_)

\* from_data(self.id(), Some(&self.data_bytes())) in the catalog of self;
\* from_data is not reached when data_bytes() panics.
DecodePanic == [ok |-> FALSE, err |-> "Panic", v |-> 0]
FromDataOf(self) ==
    IF ~Encodes(self) THEN DecodePanic
    ELSE IF self.dir = "cmd" THEN CommandFromData(Id(self), Some(DataBytes(self)))
    ELSE ResponseFromData(Id(self), Some(DataBytes(self)))

-----------------------------------------------------------------------------
(* Packet framer (src/protocol.rs)                                          *)

\* The value (), also standing where a result carries no value.
Unit == [unit |-> TRUE]

Ok(x) == [kind |-> "Ok", err |-> "none", v |-> x]
Err(e) == [kind |-> "Err", err |-> e, v |-> Unit]
Panic == [kind |-> "Panic", err |-> "none", v |-> Unit]   \* the thread unwinds
NoResult == [kind |-> "none", err |-> "none", v |-> Unit] \* nothing computed yet

\* CmdFormat::default()
CmdFormatDefault == [reserved |-> 0, long |-> 0, query_id_size |-> 0]

\* CmdFormat::to_bytes: 3 reserved bits, 1 long bit, 4 bits of query id size.
CmdFormatToBytes(fmt) ==
    <<(fmt.reserved * 32) + (fmt.long * 16) + fmt.query_id_size>>

\* CmdFormatFromByte taking the long flag one bit too high, from the lowest
\* reserved bit.
CmdFormatFromByte_LongFromReserved(b) ==
    [reserved |-> b \div 32, long |-> (b \div 32) % 2, query_id_size |-> b % 16]

\* CmdFormat::from_bytes on one byte.
CmdFormatFromByte(b) ==
    [reserved |-> b \div 32, long |-> (b \div 16) % 2, query_id_size |-> b % 16]

MkPacket(cmd_id, format, length, qry, data) ==
    [cmd_id |-> cmd_id, format |-> format, length |-> length,
     query_id |-> qry, data |-> data]

\* Packet::new(from)
PacketNew(from) ==
    LET length == Len(DataBytes(from)) + 5
        long == length > 255
    IN  MkPacket(Id(from),
                 [CmdFormatDefault EXCEPT !.long = IF long THEN 1 ELSE 0],
                 IF long THEN length + 1 ELSE length,
                 None, from)

\* Packet::new_with_query_id(from, query_id)
PacketNewWithQueryId(from, qry) ==
    LET packet == PacketNew(from)
    IN  [packet EXCEPT !.query_id = Some(qry),
                       !.format.query_id_size = Len(qry),
                       !.length = packet.length + Len(qry)]

\* Packet::to_bytes(self)
PacketToBytes(self) ==
    <<255, self.cmd_id>>
        \o CmdFormatToBytes(self.format)
        \o (IF self.length > 255 THEN ToBE(2, self.length) ELSE <<self.length>>)
        \o (IF self.query_id.some THEN self.query_id.v ELSE <<>>)
        \o DataBytes(self.data)
        \o <<170>>

\* The length field of RawPacket::from_bytes: [value, index after it], or
\* a panic.  With long == 1 the one-byte slice bytes[index..index + 1] is
\* converted to a [u8; 2] and unwrapped.
RawLengthField(bs, cmd_format, index) ==
    IF cmd_format.long = 1
    THEN LET slice == SubSeq(bs, index + 1, index + 1)
         IN  IF Len(slice) # 2 THEN Panic
             ELSE Ok([len |-> ToSigned(2, FromBE(slice)), index |-> index + 2])
    ELSE Ok([len |-> bs[index + 1], index |-> index + 1])

\* The query id and data slices of RawPacket::from_bytes, after the length
\* check.  A slice that ends past the buffer panics, and so does a data_len
\* below zero (subtraction overflow; without overflow checks it wraps and
\* the slice index + len is out of range).
RawBody(bs, cmd_id, cmd_format, length, index0) ==
    LET qlen == cmd_format.query_id_size
        index == index0 + qlen
        data_len == length - 2 - 1 - 1 - qlen - cmd_format.long - 1
    IN  IF qlen # 0 /\ index0 + qlen > Len(bs) THEN Panic
        ELSE IF data_len < 0 \/ index + data_len > Len(bs) THEN Panic
        ELSE Ok(MkPacket(cmd_id, cmd_format, length,
                    IF qlen = 0 THEN None
                    ELSE Some(SubSeq(bs, index0 + 1, index0 + qlen)),
                    IF data_len = 0 THEN None
                    ELSE Some(SubSeq(bs, index + 1, index + data_len))))

\* RawPacket::from_bytes after the size and delimiter checks.
RawParse(bs) ==
    LET cmd_id == bs[2]
        cmd_format == CmdFormatFromByte(bs[3])
        lf == RawLengthField(bs, cmd_format, 3)
    IN  IF lf.kind # "Ok" THEN lf
        ELSE IF Len(bs) # lf.v.len THEN Err("InvalidPacketLength")
        ELSE RawBody(bs, cmd_id, cmd_format, lf.v.len, lf.v.index)

\* RawPacketFromBytes with the delimiter test joined by && instead of ||.
RawPacketFromBytes_BothDelimiters(bs) ==
    IF Len(bs) < PACKET_MIN_SIZE THEN Err("PacketLengthTooSmall")
    ELSE IF bs[1] # PACKET_START /\ bs[Len(bs)] # PACKET_END THEN Err("FrameError")
    ELSE RawParse(bs)

\* RawPacket::from_bytes(bytes)
RawPacketFromBytes(bs) ==
    IF Len(bs) < PACKET_MIN_SIZE THEN Err("PacketLengthTooSmall")
    ELSE IF bs[1] # PACKET_START \/ bs[Len(bs)] # PACKET_END THEN Err("FrameError")
    ELSE RawParse(bs)

\* From<RawPacket> for CommandPacket / ResponsePacket: the codec result is
\* unwrapped with expect(), so a codec error panics.
PacketFromRaw(rawpkt, decoded) ==
    IF decoded.ok THEN Ok([rawpkt EXCEPT !.data = decoded.v]) ELSE Panic

\* CommandPacket::from_bytes(bytes)
CommandPacketFromBytes(bs) ==
    LET r == RawPacketFromBytes(bs)
    IN  IF r.kind # "Ok" THEN r
        ELSE PacketFromRaw(r.v, CommandFromData(r.v.cmd_id, r.v.data))

\* ResponsePacket::from_bytes(bytes)
ResponsePacketFromBytes(bs) ==
    LET r == RawPacketFromBytes(bs)
    IN  IF r.kind # "Ok" THEN r
        ELSE PacketFromRaw(r.v, ResponseFromData(r.v.cmd_id, r.v.data))

-----------------------------------------------------------------------------
(* Inputs                                                                   *)

SmallPayload == 12     \* payload lengths 0..SmallPayload are all tried
EdgeWidth == 20        \* and those within EdgeWidth of the 255-byte limit
MaxPayload == 600      \* and the longest one
MaxWire == 10          \* received buffers of 0..MaxWire bytes are all tried
LongWire == 3          \* and those of 255..255 + LongWire bytes

\* Filler bytes; every byte value occurs.
PatternAt(i) == ((i * 7) + 3) % 256
Pattern(n) == [i \in 1..n |-> PatternAt(i)]

PayloadLens ==
    (0..SmallPayload)
        \cup {n \in 0..MaxPayload : n + 5 >= 255 - EdgeWidth /\ n + 5 <= 255 + EdgeWidth}
        \cup {MaxPayload}

\* A Command whose data_bytes() has n bytes: Clear, PowerDisplay,
\* LayoutDisplay with a short text, ImgSave with n - 8 bytes of pixels.
CommandOfLen(n) ==
    CASE n = 0 -> [dir |-> "cmd", id |-> 1, f |-> <<>>]
      [] n = 1 -> [dir |-> "cmd", id |-> 0, f |-> <<1>>]
      [] n \in 2..7 ->
            [dir |-> "cmd", id |-> 98, f |-> <<42, [i \in 1..(n - 2) |-> 47 + i]>>]
      [] OTHER ->
            [dir |-> "cmd", id |-> 65, f |-> <<0, n - 8, 8, 1, Pattern(n - 8)>>]

\* A Response whose data_bytes() has n bytes: RdDevInfo with n parameters.
ResponseOfLen(n) == [dir |-> "resp", id |-> 227, f |-> <<Pattern(n)>>]

ValueOfLen(dir, n) == IF dir = "cmd" THEN CommandOfLen(n) ELSE ResponseOfLen(n)

\* Query ids handed to new_with_query_id: 0, 1, 4 and 15 bytes.
QueryIdSamples ==
    << <<>>, <<7>>, ToBE(4, 0), ToBE(4, 1), <<18, 52, 86, 170>>, Pattern(15) >>

WireLens == (0..MaxWire) \cup (255..(255 + LongWire)) \cup {PACKET_MAX_SIZE}
WireFirst == {PACKET_START, 0}
WireLast == {PACKET_END, PACKET_START}
WireTags == {0, 1, 5, 119}
WireFormats == {0, 1, 4, 16, 20, 228}
WireLengthFields == {"one", "one_wrong", "two", "two_wrong"}

\* A received buffer of n bytes: filler, with the delimiters, tag, format
\* byte and length field (one byte, or two big-endian bytes; right or one
\* too high) written over it where the buffer is long enough.
WireBuffer(n, first, last, tag, fmt, lf) ==
    LET l == IF lf \in {"one_wrong", "two_wrong"} THEN n + 1 ELSE n
    IN  [i \in 1..n |->
            CASE i = 1 -> first
              [] i = n -> last
              [] i = 2 -> tag
              [] i = 3 -> fmt
              [] i = 4 -> IF lf \in {"one", "one_wrong"} THEN l % 256 ELSE l \div 256
              [] i = 5 /\ lf \in {"two", "two_wrong"} -> l % 256
              [] OTHER -> PatternAt(i)]

-----------------------------------------------------------------------------
(* Framer: a value is built into a packet and emitted, or a buffer arrives, *)
(* and the buffer is decoded, first raw and then as a command or response.  *)

NoValue == [dir |-> "none", id |-> 0, f |-> <<>>]
NoTyped == [dir |-> "none", res |-> NoResult]

FramerInit ==
    /\ val = NoValue
    /\ qid = None
    /\ pkt = None
    /\ bytes = <<>>
    /\ origin = "none"
    /\ raw = NoResult
    /\ typed = NoTyped

\* call.c: the counter when the call was made; call.by: the query id of the
\* response packet that ended the read loop, if one did.
NoCall == [op |-> "none", c |-> 0, ret |-> NoResult, by |-> None, ended |-> FALSE]

ClientIdle ==
    /\ query_id = 0
    /\ tx = <<>>
    /\ rx = <<>>
    /\ pc = "idle"
    /\ call = NoCall
    /\ reads = 0

\* Nothing encoded, split or decoded yet.
NoChunks == [kind |-> "none", id |-> 0, v |-> <<>>]
NoDecoded == [ok |-> FALSE, err |-> "none", v |-> 0]
NoEncoded == [kind |-> "none", v |-> <<>>]
NoInput == [dir |-> "none", id |-> 0, data |-> None, via |-> "none", more |-> 0]

CodecIdle ==
    /\ value = NoValue
    /\ chunk_size = 0
    /\ chunks = NoChunks
    /\ other = NoDecoded
    /\ encoded = NoEncoded
    /\ input = NoInput
    /\ parsed = NoDecoded

\* ActiveLookServer::new(rx, tx, ctrl): nothing arrived, nothing written,
\* no call made.
ServerIdle ==
    server = [rx |-> <<>>, tx |-> <<>>, op |-> "none",
              item |-> [kind |-> "none", bytes |-> <<>>], ret |-> NoResult]

Init == FramerInit /\ ClientIdle /\ CodecIdle /\ ServerIdle

\* let packet = Packet::new(from)
New(from) ==
    /\ origin = "none" /\ ~pkt.some
    /\ val' = from
    /\ qid' = None
    /\ pkt' = Some(PacketNew(from))
    /\ UNCHANGED <<bytes, origin, raw, typed>>
    /\ UNCHANGED <<clientVars, codecVars, serverVars>>

\* let packet = Packet::new_with_query_id(from, q)
NewWithQueryId(from, q) ==
    /\ origin = "none" /\ ~pkt.some
    /\ val' = from
    /\ qid' = Some(q)
    /\ pkt' = Some(PacketNewWithQueryId(from, q))
    /\ UNCHANGED <<bytes, origin, raw, typed>>
    /\ UNCHANGED <<clientVars, codecVars, serverVars>>

\* let bytes = packet.to_bytes()
ToBytes ==
    /\ origin = "none" /\ pkt.some
    /\ bytes' = PacketToBytes(pkt.v)
    /\ origin' = "to_bytes"
    /\ UNCHANGED <<val, qid, pkt, raw, typed>>
    /\ UNCHANGED <<clientVars, codecVars, serverVars>>

\* A buffer arrives from the transport.
Receive(buf) ==
    /\ origin = "none" /\ ~pkt.some
    /\ bytes' = buf
    /\ origin' = "wire"
    /\ UNCHANGED <<val, qid, pkt, raw, typed>>
    /\ UNCHANGED <<clientVars, codecVars, serverVars>>

\* RawPacket::from_bytes(&bytes)
RawFromBytes ==
    /\ origin # "none" /\ raw.kind = "none"
    /\ raw' = RawPacketFromBytes(bytes)
    /\ UNCHANGED <<val, qid, pkt, bytes, origin, typed>>
    /\ UNCHANGED <<clientVars, codecVars, serverVars>>

\* CommandPacket::from_bytes(&bytes)
CommandFromBytes ==
    /\ raw.kind # "none" /\ typed.dir = "none"
    /\ typed' = [dir |-> "cmd", res |-> CommandPacketFromBytes(bytes)]
    /\ UNCHANGED <<val, qid, pkt, bytes, origin, raw>>
    /\ UNCHANGED <<clientVars, codecVars, serverVars>>

\* ResponsePacket::from_bytes(&bytes)
ResponseFromBytes ==
    /\ raw.kind # "none" /\ typed.dir = "none"
    /\ typed' = [dir |-> "resp", res |-> ResponsePacketFromBytes(bytes)]
    /\ UNCHANGED <<val, qid, pkt, bytes, origin, raw>>
    /\ UNCHANGED <<clientVars, codecVars, serverVars>>

NewAny == \E dir \in {"cmd", "resp"}, n \in PayloadLens : New(ValueOfLen(dir, n))

NewWithQueryIdAny ==
    \E dir \in {"cmd", "resp"}, n \in PayloadLens, k \in DOMAIN QueryIdSamples :
        NewWithQueryId(ValueOfLen(dir, n), QueryIdSamples[k])

ReceiveAny ==
    \E n \in WireLens, first \in WireFirst, last \in WireLast, tag \in WireTags,
       fmt \in WireFormats, lf \in WireLengthFields :
        Receive(WireBuffer(n, first, last, tag, fmt, lf))

Next ==
    \/ NewAny
    \/ NewWithQueryIdAny
    \/ ToBytes
    \/ ReceiveAny
    \/ RawFromBytes
    \/ CommandFromBytes
    \/ ResponseFromBytes

Spec == Init /\ [][Next]_vars

-----------------------------------------------------------------------------
(* Client (ActiveLookClient of src/protocol.rs) and its peer                *)

MaxRequests == 2       \* requests made by one client
MaxRx == 2             \* notifications waiting in the stream
MaxReads == 2          \* reads made by one call
MaxShort == 8          \* a short write accepts 1 or MaxShort bytes

\* What one rx.read() yields: Ok(len) with the bytes read, or an error.
ReadOk(bs) == [kind |-> "data", bytes |-> bs]
ReadErr == [kind |-> "err", bytes |-> <<>>]

Battery == [dir |-> "cmd", id |-> 5, f |-> <<>>]
Clear == [dir |-> "cmd", id |-> 1, f |-> <<>>]
BatteryLevel == [dir |-> "resp", id |-> 5, f |-> <<100>>]

\* self.query_id.to_be_bytes()
QueryIdBytes(c) == ToBE(4, c)

\* read_tx_char: one read, decoded as a ResponsePacket; a failed read is Empty.
ReadTxChar(item) ==
    IF item.kind = "data" THEN ResponsePacketFromBytes(item.bytes) ELSE Err("Empty")

\* The tail of send_command_expect_response: the packet that ended the loop
\* is accepted when its query id has 4 bytes whose big-endian value equals
\* self.query_id as it is at that point.
CheckQueryId(response_pkt, counter) ==
    IF response_pkt.query_id.some
    THEN IF Len(response_pkt.query_id.v) # 4 THEN Err("IncorrectQueryId")
         ELSE IF FromBE(response_pkt.query_id.v) = counter THEN Ok(response_pkt.data)
         ELSE Err("IncorrectQueryId")
    ELSE Err("IncorrectQueryId")

\* One tx.write(bs): the bytes handed to it, whether it returned Ok, and
\* the number n of bytes it accepted (all of them, unless said otherwise).
Written(op, bs, ok) ==
    [op |-> op, bytes |-> bs, ok |-> ok, n |-> IF ok THEN Len(bs) ELSE 0]

\* What the stream got of a write: the bytes it accepted.
Accepted(w) == SubSeq(w.bytes, 1, w.n)

\* Send with the counter incremented before the packet is built.
Send_PreIncrement(cmd, wok) ==
    /\ pc = "idle" /\ query_id < MaxRequests
    /\ query_id' = query_id + 1
    /\ LET packet == PacketNewWithQueryId(cmd, QueryIdBytes(query_id'))
       IN  tx' = Append(tx, Written("send", PacketToBytes(packet), wok))
    /\ call' = [op |-> "send", c |-> query_id, by |-> None, ended |-> TRUE,
                ret |-> IF wok THEN Ok(Unit) ELSE Err("EmbeddedIOError")]
    /\ UNCHANGED <<rx, pc, reads>>
    /\ UNCHANGED <<framerVars, codecVars, serverVars>>

\* Send with the counter left alone when the write fails.
Send_IncrementOnSuccess(cmd, wok) ==
    /\ pc = "idle" /\ query_id < MaxRequests
    /\ LET packet == PacketNewWithQueryId(cmd, QueryIdBytes(query_id))
       IN  tx' = Append(tx, Written("send", PacketToBytes(packet), wok))
    /\ query_id' = IF wok THEN query_id + 1 ELSE query_id
    /\ call' = [op |-> "send", c |-> query_id, by |-> None, ended |-> TRUE,
                ret |-> IF wok THEN Ok(Unit) ELSE Err("EmbeddedIOError")]
    /\ UNCHANGED <<rx, pc, reads>>
    /\ UNCHANGED <<framerVars, codecVars, serverVars>>

\* send(cmd): the packet takes the counter, the counter is incremented, the
\* frame is written; wok is whether tx.write succeeds.  (The counter is a
\* u32; the model stops at MaxRequests requests.)
Send(cmd, wok) ==
    /\ pc = "idle" /\ query_id < MaxRequests
    /\ LET packet == PacketNewWithQueryId(cmd, QueryIdBytes(query_id))
       IN  tx' = Append(tx, Written("send", PacketToBytes(packet), wok))
    /\ query_id' = query_id + 1
    /\ call' = [op |-> "send", c |-> query_id, by |-> None, ended |-> TRUE,
                ret |-> IF wok THEN Ok(Unit) ELSE Err("EmbeddedIOError")]
    /\ UNCHANGED <<rx, pc, reads>>
    /\ UNCHANGED <<framerVars, codecVars, serverVars>>

\* send(cmd) when tx.write returns Ok(n) with n below the frame's length:
\* the result of write is matched with Ok(_), so send returns Ok(()).
SendShort(cmd, n) ==
    /\ pc = "idle" /\ query_id < MaxRequests
    /\ LET packet == PacketNewWithQueryId(cmd, QueryIdBytes(query_id))
           w == Written("send", PacketToBytes(packet), TRUE)
       IN  /\ n \in 1..(Len(w.bytes) - 1)
           /\ tx' = Append(tx, [w EXCEPT !.n = n])
    /\ query_id' = query_id + 1
    /\ call' = [op |-> "send", c |-> query_id, by |-> None, ended |-> TRUE,
                ret |-> Ok(Unit)]
    /\ UNCHANGED <<rx, pc, reads>>
    /\ UNCHANGED <<framerVars, codecVars, serverVars>>

\* SendCommandExpectResponse entering the read loop whatever the write
\* returned.
SendCommandExpectResponse_ReadsAnyway(cmd, wok) ==
    /\ pc = "idle" /\ query_id < MaxRequests
    /\ LET packet == PacketNewWithQueryId(cmd, QueryIdBytes(query_id))
       IN  tx' = Append(tx, Written("expect", PacketToBytes(packet), wok))
    /\ query_id' = query_id + 1
    /\ call' = [op |-> "expect", c |-> query_id, by |-> None, ended |-> FALSE,
                ret |-> NoResult]
    /\ pc' = "waiting"
    /\ reads' = 0
    /\ UNCHANGED rx
    /\ UNCHANGED <<framerVars, codecVars, serverVars>>

\* send_command_expect_response(cmd) up to the read loop: the packet takes
\* the counter, the frame is written, the counter is incremented; a failed
\* write returns at once.
SendCommandExpectResponse(cmd, wok) ==
    /\ pc = "idle" /\ query_id < MaxRequests
    /\ LET packet == PacketNewWithQueryId(cmd, QueryIdBytes(query_id))
       IN  tx' = Append(tx, Written("expect", PacketToBytes(packet), wok))
    /\ query_id' = query_id + 1
    /\ call' = [op |-> "expect", c |-> query_id, by |-> None, ended |-> ~wok,
                ret |-> IF wok THEN NoResult ELSE Err("EmbeddedIOError")]
    /\ pc' = IF wok THEN "waiting" ELSE "idle"
    /\ reads' = 0
    /\ UNCHANGED rx
    /\ UNCHANGED <<framerVars, codecVars, serverVars>>

\* One turn of the read loop of send_command_expect_response, and what
\* follows it when the read gave a packet: Ok(pkt) leaves the loop and the
\* query id is checked; an error reads again; a panic unwinds the call.
ReadLoop ==
    /\ pc = "waiting" /\ rx # <<>> /\ reads < MaxReads
    /\ LET resp == ReadTxChar(Head(rx))
       IN  /\ pc' = CASE resp.kind = "Ok" -> "idle"
                      [] resp.kind = "Panic" -> "panicked"
                      [] OTHER -> "waiting"
           /\ call' = CASE resp.kind = "Ok" ->
                            [call EXCEPT !.ret = CheckQueryId(resp.v, query_id),
                                         !.by = resp.v.query_id,
                                         !.ended = TRUE]
                        [] resp.kind = "Panic" -> [call EXCEPT !.ret = Panic]
                        [] OTHER -> call
    /\ rx' = Tail(rx)
    /\ reads' = reads + 1
    /\ UNCHANGED <<query_id, tx>>
    /\ UNCHANGED <<framerVars, codecVars, serverVars>>

\* read_tx_char() called by the application: one read, and its result.
ReadNotification ==
    /\ pc = "idle" /\ rx # <<>>
    /\ LET resp == ReadTxChar(Head(rx))
       IN  /\ call' = [op |-> "read_tx_char", c |-> query_id, by |-> None,
                       ended |-> resp.kind # "Panic", ret |-> resp]
           /\ pc' = IF resp.kind = "Panic" THEN "panicked" ELSE "idle"
    /\ rx' = Tail(rx)
    /\ UNCHANGED <<query_id, tx, reads>>
    /\ UNCHANGED <<framerVars, codecVars, serverVars>>

\* The peer answers request k the way a server built on ActiveLookServer
\* does: it decodes the frame (read_data) and sends a response packet built
\* with the query id found in it (new_with_query_id, send_response).
Respond(k) ==
    /\ Len(rx) < MaxRx
    /\ k \in DOMAIN tx /\ tx[k].ok
    /\ LET cmdpkt == CommandPacketFromBytes(Accepted(tx[k]))
       IN  /\ cmdpkt.kind = "Ok" /\ cmdpkt.v.query_id.some
           /\ rx' = Append(rx, ReadOk(PacketToBytes(
                        PacketNewWithQueryId(BatteryLevel, cmdpkt.v.query_id.v))))
    /\ UNCHANGED <<query_id, tx, pc, call, reads>>
    /\ UNCHANGED <<framerVars, codecVars, serverVars>>

\* Other things the notification stream can deliver: a response frame with
\* another 4-byte id, with no id, with a 1-byte id; a frame the Response
\* catalog cannot decode; bytes that are no frame; nothing; a read error;
\* delimited buffers whose length field (1 byte, 2 bytes) is not their size.
OtherNotifications ==
    << ReadOk(PacketToBytes(PacketNewWithQueryId(BatteryLevel, QueryIdBytes(1)))),
       ReadOk(PacketToBytes(PacketNewWithQueryId(BatteryLevel, QueryIdBytes(2)))),
       ReadOk(PacketToBytes(PacketNew(BatteryLevel))),
       ReadOk(PacketToBytes(PacketNewWithQueryId(BatteryLevel, <<1>>))),
       ReadOk(PacketToBytes(PacketNewWithQueryId(Clear, QueryIdBytes(0)))),
       ReadOk(<<0, 5, 0, 6, 100, 170>>),
       ReadOk(<<>>),
       ReadErr,
       ReadOk(<<255, 5, 0, 9, 100, 170>>),
       ReadOk(<<255, 5, 16, 0, 7, 170>>) >>

Notify(item) ==
    /\ Len(rx) < MaxRx
    /\ rx' = Append(rx, item)
    /\ UNCHANGED <<query_id, tx, pc, call, reads>>
    /\ UNCHANGED <<framerVars, codecVars, serverVars>>

\* The application sends Clear, which the device does not answer, and
\* asks for the battery level, which it does.
SendAny == \E wok \in BOOLEAN : Send(Clear, wok)

SendCommandExpectResponseAny == \E wok \in BOOLEAN : SendCommandExpectResponse(Battery, wok)

RespondAny == \E k \in 1..MaxRequests : Respond(k)

NotifyAny == \E i \in DOMAIN OtherNotifications : Notify(OtherNotifications[i])

ClientNext ==
    \/ SendAny
    \/ SendCommandExpectResponseAny
    \/ ReadLoop
    \/ RespondAny
    \/ NotifyAny

ClientSpec == Init /\ [][ClientNext]_vars

\* The same client on a send stream that may accept part of a frame, with
\* an application that also reads notifications itself.
SendShortAny == \E n \in {1, MaxShort} : SendShort(Clear, n)

ClientApiNext ==
    \/ ClientNext
    \/ SendShortAny
    \/ ReadNotification

ClientApiSpec == Init /\ [][ClientApiNext]_vars

-----------------------------------------------------------------------------
(* Codec and chunker: a value of the catalog is encoded, split into chunks  *)
(* and decoded back.                                                        *)

NSamples == 6          \* sample values per variant
MaxChunkSize == 12     \* chunk sizes 1..MaxChunkSize are all tried, and 255
MaxWidth == 17         \* image widths 0..MaxWidth
MaxPixels == 13        \* images of 0..MaxPixels bytes of pixel data
MaxOver == 2           \* texts of up to MaxOver chars over capacity
MaxMore == 2           \* payloads of up to MaxMore bytes after the last field

ChunkSizes == (1..MaxChunkSize) \cup {255}

\* A text of n ASCII digits.
TextOf(n) == [i \in 1..n |-> 48 + (i % 10)]

\* Sample k of a text field of capacity cap: empty, at capacity, one and two
\* bytes under capacity, short, and a short one with a non-ASCII char (e
\* acute, U+00E9).
SampleText(cap, k) ==
    CASE k = 1 -> <<>>
      [] k = 2 -> TextOf(cap)
      [] k = 3 -> TextOf(cap - 1)
      [] k = 4 -> TextOf(cap - 2)
      [] k = 5 -> TextOf(3)
      [] OTHER -> <<65, 233>>

\* Sample k of an integer field of n bytes: 0, the highest value (the
\* highest below 2^31 for 4 bytes), the lowest, and values in between.
SampleInt(n, sg, k) ==
    LET top == IF n = 4 THEN 2147483647 ELSE Pow256(n) - 1
    IN  CASE k = 1 -> 0
          [] k = 2 -> IF sg THEN (top - 1) \div 2 ELSE top
          [] k = 3 -> IF sg THEN 0 - ((top + 1) \div 2) ELSE 1
          [] k = 4 -> IF sg THEN 0 - 1 ELSE top \div 2
          [] OTHER -> 7 * k

\* Field i of the layout gives the length of a later field (count = ...).
IsCount(layout, i) == \E j \in DOMAIN layout : layout[j].k = "count" /\ layout[j].n = i

RECURSIVE SampleFields(_, _, _)

\* Sample k of field i of a layout; acc holds the fields before it.
SampleField(layout, i, k, acc) ==
    LET f == layout[i]
    IN  CASE f.k = "int" ->
                IF IsCount(layout, i) THEN (CASE k = 1 -> 0 [] k = 2 -> 10 [] OTHER -> k)
                ELSE SampleInt(f.n, f.sg, k)
          [] f.k = "enum" ->
                IF k = 1 THEN CHOOSE x \in f.ids : \A y \in f.ids : x <= y
                ELSE CHOOSE x \in f.ids : \A y \in f.ids : x >= y
          [] f.k = "bool" -> k % 2 = 0
          [] f.k = "cstr" -> SampleText(f.n, k)
          [] f.k = "arr" -> [j \in 1..f.n |-> PatternAt(j + k)]
          [] f.k = "count" -> [j \in 1..acc[f.n] |-> PatternAt(j + k)]
          [] f.k = "all" ->
                IF f.sub = <<U(1)>> THEN [j \in 1..(k - 1) |-> PatternAt(j)]
                ELSE CASE k = 1 -> <<>>
                       [] k = 2 -> <<SampleFields(f.sub, 2, <<>>), SampleFields(f.sub, 3, <<>>)>>
                       [] OTHER -> <<SampleFields(f.sub, k, <<>>)>>

\* Sample k of the fields of a layout, in declaration order.
SampleFields(layout, k, acc) ==
    IF Len(acc) = Len(layout) THEN acc
    ELSE SampleFields(layout, k, Append(acc, SampleField(layout, Len(acc) + 1, k, acc)))

\* Sample k of the Command / Response variant with tag id.
SampleCommand(id, k) ==
    [dir |-> "cmd", id |-> id, f |-> SampleFields(CommandLayout(id), k, <<>>)]
SampleResponse(id, k) ==
    [dir |-> "resp", id |-> id, f |-> SampleFields(ResponseLayout(id), k, <<>>)]

\* ImgSave / ImgStream of the given width and format with n bytes of pixels.
ImgSaveOf(width, format, n) ==
    [dir |-> "cmd", id |-> 65, f |-> <<0, n, width, format, Pattern(n)>>]
ImgStreamOf(width, format, n) ==
    [dir |-> "cmd", id |-> 68, f |-> <<n, width, 0 - 3, 4, format, Pattern(n)>>]

\* A text of n digits whose char at position at (if any) is e acute.
TextWith(n, at) == [i \in 1..n |-> IF i = at THEN 233 ELSE 48 + (i % 10)]

\* A command holding one text of capacity NAME_LEN (CfgRead) or TEXT_LEN
\* (LayoutDisplay).
CfgReadOf(text) == [dir |-> "cmd", id |-> 209, f |-> <<text>>]
LayoutDisplayOf(text) == [dir |-> "cmd", id |-> 98, f |-> <<42, text>>]

\* A value is taken.
Take(from) ==
    /\ value.dir = "none" /\ input.dir = "none"
    /\ value' = from
    /\ UNCHANGED <<chunk_size, chunks, other, encoded, input, parsed>>
    /\ UNCHANGED <<framerVars, clientVars, serverVars>>

\* let (id, split) = value.as_bytes_chunks(n)
AsBytesChunks(n) ==
    /\ value.dir # "none" /\ chunks.kind = "none" /\ encoded.kind = "none"
    /\ chunk_size' = n
    /\ chunks' = AsBytesChunksOf(value, n)
    /\ UNCHANGED <<value, other, encoded, input, parsed>>
    /\ UNCHANGED <<framerVars, clientVars, serverVars>>

\* let other = from_data(value.id(), Some(&value.data_bytes()))
FromData ==
    /\ value.dir # "none" /\ other.err = "none" /\ ~other.ok
    /\ encoded.kind = "none"
    /\ other' = FromDataOf(value)
    /\ UNCHANGED <<value, chunk_size, chunks, encoded, input, parsed>>
    /\ UNCHANGED <<framerVars, clientVars, serverVars>>

\* let encoded = value.data_bytes()
Encode ==
    /\ value.dir # "none" /\ encoded.kind = "none"
    /\ chunks.kind = "none" /\ other.err = "none" /\ ~other.ok
    /\ encoded' = DataBytesOf(value)
    /\ UNCHANGED <<value, chunk_size, chunks, other, input, parsed>>
    /\ UNCHANGED <<framerVars, clientVars, serverVars>>

\* from_data(id, data) of the catalog dir.
FromDataIn(dir, id, data) ==
    IF dir = "cmd" THEN CommandFromData(id, data) ELSE ResponseFromData(id, data)

\* let parsed = from_data(id, data) in the catalog dir; more counts the
\* bytes of data appended after an encoded value, via tells where the
\* arguments come from.
FromDataOn(dir, id, data, via, more) ==
    /\ value.dir = "none" /\ input.dir = "none"
    /\ input' = [dir |-> dir, id |-> id, data |-> data, via |-> via, more |-> more]
    /\ parsed' = FromDataIn(dir, id, data)
    /\ UNCHANGED <<value, chunk_size, chunks, other, encoded>>
    /\ UNCHANGED <<framerVars, clientVars, serverVars>>

\* No value was taken and from_data was handed nothing yet.
Fresh == value.dir = "none" /\ input.dir = "none"

TakeCommand ==
    Fresh /\ \E id \in CommandIds, k \in 1..NSamples : Take(SampleCommand(id, k))

TakeResponse ==
    Fresh /\ \E id \in ResponseIds, k \in 1..NSamples : Take(SampleResponse(id, k))

TakeImgSave ==
    Fresh /\
    \E width \in 0..MaxWidth, format \in ImgFormats, n \in 0..MaxPixels :
        Take(ImgSaveOf(width, format, n))

TakeImgStream ==
    Fresh /\
    \E width \in 0..MaxWidth, format \in StreamImgFormats, n \in 0..MaxPixels :
        Take(ImgStreamOf(width, format, n))

\* Texts of up to MaxOver chars over capacity, with an e acute anywhere (a
\* name) or at either end (a free text).
TakeText ==
    /\ Fresh
    /\ \/ \E n \in 0..(NAME_LEN + MaxOver), at \in 0..(NAME_LEN + MaxOver) :
               at <= n /\ Take(CfgReadOf(TextWith(n, at)))
       \/ \E n \in (TEXT_LEN - MaxOver)..(TEXT_LEN + MaxOver) :
               \E at \in {0, 1, n} : Take(LayoutDisplayOf(TextWith(n, at)))

AsBytesChunksAny == \E n \in ChunkSizes : AsBytesChunks(n)

\* The payloads of no byte: None and the empty slice.
NoPayloads == {None, Some(<<>>)}

\* from_data on a tag of the catalog, or on one next to it, with no payload.
FromDataEmpty ==
    Fresh /\
    \E dir \in {"cmd", "resp"}, id \in CommandIds \cup ResponseIds \cup {4, 7},
       data \in NoPayloads :
        FromDataOn(dir, id, data, "direct", 0)

\* from_data on the encoding of a sample value followed by more bytes.
FromDataLonger ==
    /\ Fresh
    /\ \/ \E id \in CommandIds, k \in 1..NSamples, more \in 0..MaxMore :
               FromDataOn("cmd", id,
                          Some(DataBytes(SampleCommand(id, k)) \o Pattern(more)),
                          "direct", more)
       \/ \E id \in ResponseIds, k \in 1..NSamples, more \in 0..MaxMore :
               FromDataOn("resp", id,
                          Some(DataBytes(SampleResponse(id, k)) \o Pattern(more)),
                          "direct", more)

\* CommandPacket::from_bytes(bs) on a frame RawPacket::from_bytes accepts:
\* from_data gets the tag and the data of the raw packet.
FromDataFrame ==
    Fresh /\
    \E tag \in CommandIds, qlen \in {0, 2}, n \in 0..MaxMore :
        LET bs == <<255, tag, qlen, 5 + qlen + n>> \o Pattern(qlen) \o Pattern(n)
                     \o <<170>>
            r == RawPacketFromBytes(bs)
        IN  /\ r.kind = "Ok"
            /\ FromDataOn("cmd", r.v.cmd_id, r.v.data, "frame", n)

CodecNext ==
    \/ TakeCommand
    \/ TakeResponse
    \/ TakeImgSave
    \/ TakeImgStream
    \/ TakeText
    \/ AsBytesChunksAny
    \/ FromData
    \/ Encode
    \/ FromDataEmpty
    \/ FromDataLonger
    \/ FromDataFrame

CodecSpec == Init /\ [][CodecNext]_vars

-----------------------------------------------------------------------------
(* Server (ActiveLookServer of src/protocol.rs)                             *)

MaxCommands == 2       \* buffers waiting on the server's inbound stream
MaxResponses == 2      \* responses sent by one server

\* read_data: one read, decoded as a CommandPacket; a failed read is Empty.
ReadData(item) ==
    IF item.kind = "data" THEN CommandPacketFromBytes(item.bytes) ELSE Err("Empty")

\* What the inbound stream can deliver: command frames with a 4-byte id
\* and without id, a frame with a payload, a frame the Command catalog
\* cannot decode, bytes that are no frame, nothing, a read error.
Arrivals ==
    << ReadOk(PacketToBytes(PacketNewWithQueryId(Battery, QueryIdBytes(0)))),
       ReadOk(PacketToBytes(PacketNewWithQueryId(Battery, QueryIdBytes(1)))),
       ReadOk(PacketToBytes(PacketNew(Clear))),
       ReadOk(PacketToBytes(PacketNew(LayoutDisplayOf(TextOf(3))))),
       ReadOk(<<255, 4, 0, 5, 170>>),
       ReadOk(<<0, 5, 0, 6, 100, 170>>),
       ReadOk(<<>>),
       ReadErr >>

\* The response packets the application hands to send_response: without
\* query id, and with ids that were or were not among the commands read.
Responses ==
    << PacketNew(BatteryLevel),
       PacketNewWithQueryId(BatteryLevel, QueryIdBytes(0)),
       PacketNewWithQueryId(BatteryLevel, QueryIdBytes(1)),
       PacketNewWithQueryId(BatteryLevel, QueryIdBytes(7)),
       PacketNewWithQueryId(BatteryLevel, <<9>>) >>

\* A buffer arrives on the server's inbound stream.
Arrive(item) ==
    /\ server.op # "panicked" /\ Len(server.rx) < MaxCommands
    /\ server' = [server EXCEPT !.rx = Append(@, item)]
    /\ UNCHANGED <<framerVars, clientVars, codecVars>>

\* let ret = server.read_data()
ServerReadData ==
    /\ server.op # "panicked" /\ server.rx # <<>>
    /\ LET ret == ReadData(Head(server.rx))
       IN  server' = [server EXCEPT
                        !.rx = Tail(@),
                        !.item = Head(server.rx),
                        !.ret = ret,
                        !.op = IF ret.kind = "Panic" THEN "panicked" ELSE "read_data"]
    /\ UNCHANGED <<framerVars, clientVars, codecVars>>

\* server.send_response(response): the bytes of response.to_bytes() are
\* handed to tx.write, whose result is dropped.
SendResponse(response) ==
    /\ server.op # "panicked" /\ Len(server.tx) < MaxResponses
    /\ server' = [server EXCEPT
                     !.tx = Append(@, [response |-> response,
                                       bytes |-> PacketToBytes(response)]),
                     !.op = "send_response"]
    /\ UNCHANGED <<framerVars, clientVars, codecVars>>

ArriveAny == \E i \in DOMAIN Arrivals : Arrive(Arrivals[i])

SendResponseAny == \E i \in DOMAIN Responses : SendResponse(Responses[i])

ServerNext ==
    \/ ArriveAny
    \/ ServerReadData
    \/ SendResponseAny

ServerSpec == Init /\ [][ServerNext]_vars

-----------------------------------------------------------------------------
(* Properties                                                               *)

\* An Option<&[u8]> payload: None when there are no bytes.
PayloadOption(bs) == IF bs = <<>> THEN None ELSE Some(bs)

\* The frame of the request of the current call, decoded.
RequestFrame == RawPacketFromBytes(tx[Len(tx)].bytes)

\* C1: a send_command_expect_response call made with counter c puts c, as 4
\* big-endian bytes, in its request frame, and the call returns Ok exactly
\* when the response packet that ended the read loop carries a 4-byte query
\* id whose big-endian value is c.
C1_CorrelationMatching ==
    (call.op = "expect" /\ call.ended /\ call.ret.err # "EmbeddedIOError") =>
        /\ RequestFrame.kind = "Ok"
        /\ RequestFrame.v.query_id.some
        /\ Len(RequestFrame.v.query_id.v) = 4
        /\ FromBE(RequestFrame.v.query_id.v) = call.c
        /\ (call.ret.kind = "Ok") <=>
               (/\ call.by.some
                /\ Len(call.by.v) = 4
                /\ FromBE(call.by.v) = call.c)

\* C2: a frame emitted by to_bytes() for a packet built with a 4-byte query
\* id q decodes, with RawPacket::from_bytes, to Ok with the value's tag,
\* query id Some(q), the value's payload bytes (None when empty) and length
\* equal to the number of bytes of the frame, whatever the payload length.
C2_FrameRoundTrip ==
    (origin = "to_bytes" /\ qid.some /\ Len(qid.v) = 4 /\ raw.kind # "none") =>
        /\ raw.kind = "Ok"
        /\ raw.v.cmd_id = Id(val)
        /\ raw.v.query_id = Some(qid.v)
        /\ raw.v.data = PayloadOption(DataBytes(val))
        /\ raw.v.length = Len(bytes)

\* C3: the value to_bytes() writes in the length field is the number of
\* bytes of the frame it emits.
C3_LengthIsFrameSize ==
    origin = "to_bytes" => pkt.v.length = Len(bytes)

\* The number of bytes to_bytes() spent on the length field of the frame.
LengthFieldWidth ==
    Len(bytes) - 4 - (IF qid.some THEN Len(qid.v) ELSE 0) - Len(DataBytes(val))

\* C4: in an emitted frame the extended-length bit of the format byte is 1
\* exactly when the frame is longer than 255 bytes, and the length field
\* takes 2 bytes exactly when that bit is 1, and 1 byte otherwise.
C4_ExtendedLengthBit ==
    origin = "to_bytes" =>
        LET long == CmdFormatFromByte(bytes[3]).long
        IN  /\ (long = 1) <=> (Len(bytes) > 255)
            /\ LengthFieldWidth = IF long = 1 THEN 2 ELSE 1

\* A correctly delimited buffer with the extended-length bit set, a 2-byte
\* length field equal to its size and room for the declared query id.
WellFormedExtended(bs) ==
    /\ Len(bs) >= 6
    /\ bs[1] = PACKET_START /\ bs[Len(bs)] = PACKET_END
    /\ CmdFormatFromByte(bs[3]).long = 1
    /\ FromBE(SubSeq(bs, 4, 5)) = Len(bs)
    /\ CmdFormatFromByte(bs[3]).query_id_size <= Len(bs) - 6

\* C5: RawPacket::from_bytes accepts every well-formed extended-length
\* frame: Ok, with that length, the query id taken right after the 2-byte
\* length field and the payload being the bytes up to the end delimiter.
C5_ExtendedFrameAccepted ==
    (raw.kind # "none" /\ WellFormedExtended(bytes)) =>
        LET q == CmdFormatFromByte(bytes[3]).query_id_size
        IN  /\ raw.kind = "Ok"
            /\ raw.v.length = Len(bytes)
            /\ raw.v.query_id = (IF q = 0 THEN None ELSE Some(SubSeq(bytes, 6, 5 + q)))
            /\ raw.v.data = PayloadOption(SubSeq(bytes, 6 + q, Len(bytes) - 1))

\* The length field of a buffer of at least 5 bytes, read as the format
\* byte says: 1 byte, or 2 big-endian bytes.
DeclaredLength(bs) ==
    IF CmdFormatFromByte(bs[3]).long = 1 THEN FromBE(SubSeq(bs, 4, 5)) ELSE bs[4]

\* C6: a correctly delimited buffer of at least 5 bytes whose length field
\* differs from its size is rejected with InvalidPacketLength.
C6_LengthMismatchRejected ==
    (/\ raw.kind # "none"
     /\ Len(bytes) >= PACKET_MIN_SIZE
     /\ bytes[1] = PACKET_START /\ bytes[Len(bytes)] = PACKET_END
     /\ DeclaredLength(bytes) # Len(bytes)) =>
        (raw.kind = "Err" /\ raw.err = "InvalidPacketLength")

\* C7: RawPacket::from_bytes answers PacketLengthTooSmall for every buffer
\* shorter than 5 bytes, whatever its content, and FrameError for every
\* buffer of 5 bytes or more whose first byte is not 0xFF or whose last byte
\* is not 0xAA, whatever its format and length bytes.
C7_ErrorPrecedence ==
    raw.kind # "none" =>
        /\ Len(bytes) < 5 => (raw.kind = "Err" /\ raw.err = "PacketLengthTooSmall")
        /\ (Len(bytes) >= 5 /\ (bytes[1] # 255 \/ bytes[Len(bytes)] # 170)) =>
               (raw.kind = "Err" /\ raw.err = "FrameError")

\* A buffer with only its end delimiter wrong, the extended-length bit set
\* and a wrong length field was decoded, and the answer is FrameError.
C7_Witness ==
    /\ raw.kind = "Err" /\ raw.err = "FrameError"
    /\ Len(bytes) >= 5
    /\ bytes[1] = 255 /\ bytes[Len(bytes)] # 170
    /\ CmdFormatFromByte(bytes[3]).long = 1
    /\ DeclaredLength(bytes) # Len(bytes)

\* C8: RawPacket::from_bytes returns Ok or Err for every buffer and never
\* aborts; the end delimiter is never part of a returned query id or payload.
C8_FramerNeverAborts ==
    raw.kind # "none" =>
        /\ raw.kind \in {"Ok", "Err"}
        /\ raw.kind = "Ok" =>
               Len(DataOf(raw.v.query_id)) + Len(DataOf(raw.v.data))
                   <= Len(bytes) - 5

\* The codec's answer for a raw packet, in the catalog of direction dir.
Decoded(dir, rawpkt) ==
    IF dir = "cmd" THEN CommandFromData(rawpkt.cmd_id, rawpkt.data)
    ELSE ResponseFromData(rawpkt.cmd_id, rawpkt.data)

\* C9: for a correctly framed buffer that the codec cannot decode (tag not
\* in the catalog, payload too short), CommandPacket::from_bytes and
\* ResponsePacket::from_bytes return Err(ParseError).
C9_CodecErrorReturned ==
    (typed.dir # "none" /\ raw.kind = "Ok" /\ ~Decoded(typed.dir, raw.v).ok) =>
        (typed.res.kind = "Err" /\ typed.res.err = "ParseError")

ReadTurn == pc = "waiting" /\ rx # <<>> /\ reads < MaxReads /\ reads' = reads + 1

\* The read gives a buffer that parses as a valid response frame.
ValidResponseFrame(item) ==
    item.kind = "data" /\ ResponsePacketFromBytes(item.bytes).kind = "Ok"

\* The query id of a response packet is not the 4-byte id c.
NotTheId(by, c) == ~by.some \/ Len(by.v) # 4 \/ FromBE(by.v) # c

\* C11: the first valid response frame read by send_command_expect_response
\* ends the call; if it has no query id, a query id that is not 4 bytes
\* long, or a 4-byte id different from the request's, the call returns
\* IncorrectQueryId, and an ended call reads nothing more, so what is
\* queued behind that frame stays in the stream.
C11_FirstFrameEndsCall ==
    [][/\ (ReadTurn /\ ValidResponseFrame(Head(rx))) =>
            /\ pc' = "idle" /\ call'.ended
            /\ rx' = Tail(rx)
            /\ (NotTheId(ResponsePacketFromBytes(Head(rx).bytes).v.query_id, call.c) =>
                   (call'.ret.kind = "Err" /\ call'.ret.err = "IncorrectQueryId"))
       /\ (call.ended => reads' # reads + 1)]_vars

\* The buffer fails framing as the frame format defines it: fewer than 5
\* bytes, a wrong delimiter, or a length field that is not its size.
FailsFraming(bs) ==
    \/ Len(bs) < PACKET_MIN_SIZE
    \/ bs[1] # PACKET_START \/ bs[Len(bs)] # PACKET_END
    \/ DeclaredLength(bs) # Len(bs)

\* C12: in the read loop of send_command_expect_response a read that gives
\* no data, or a buffer that fails framing (too small, wrong delimiters,
\* length mismatch), is dropped: the call goes on waiting, its result and
\* the counter are untouched.
C12_TransientReadsDiscarded ==
    [][(/\ ReadTurn
        /\ \/ Head(rx).kind = "err"
           \/ Head(rx).kind = "data" /\ FailsFraming(Head(rx).bytes)) =>
            (pc' = "waiting" /\ call' = call /\ query_id' = query_id)]_vars

\* The buffer is a correct frame whose tag or payload the Response codec
\* cannot decode.
UndecodableFrame(item) ==
    /\ item.kind = "data"
    /\ RawPacketFromBytes(item.bytes).kind = "Ok"
    /\ ~Decoded("resp", RawPacketFromBytes(item.bytes).v).ok

\* C13: in the read loop of send_command_expect_response a correctly framed
\* buffer that the Response codec cannot decode is dropped like any other
\* garbage: the call goes on waiting with its result untouched, so a later
\* valid response frame is still read.
C13_CodecErrorSwallowed ==
    [][(ReadTurn /\ UndecodableFrame(Head(rx))) =>
            (pc' = "waiting" /\ call' = call /\ query_id' = query_id)]_vars

\* The client with its read loop scheduled: a call inside the loop keeps
\* polling (the loop has no other exit than a packet), so a read that stays
\* possible is eventually made.
LiveClientSpec == ClientSpec /\ WF_reads(ReadTurn)

\* A valid response frame is queued within the reads the call can make.
ValidFrameAhead ==
    \E k \in DOMAIN rx : ValidResponseFrame(rx[k]) /\ reads + k <= MaxReads

\* C14: a send_command_expect_response call whose write succeeded, with a
\* valid response frame on its way in the notification stream, eventually
\* returns Ok or IncorrectQueryId.
C14_EventuallyReturns ==
    (pc = "waiting" /\ ValidFrameAhead) ~>
        (/\ call.ended
         /\ \/ call.ret.kind = "Ok"
            \/ call.ret.kind = "Err" /\ call.ret.err = "IncorrectQueryId")

\* The chunks of a list put end to end.
RECURSIVE Flatten(_)
Flatten(ss) ==
    CASE Len(ss) = 0 -> <<>>
      [] Len(ss) = 1 -> ss[1]
      [] OTHER ->
            LET h == Len(ss) \div 2
            IN  Flatten(SubSeq(ss, 1, h)) \o Flatten(SubSeq(ss, h + 1, Len(ss)))

\* C15: for every Command and Response and every chunk_size >= 1,
\* as_bytes_chunks returns the value's tag and chunks that, put end to
\* end, are exactly data_bytes(), under the default rule and under the
\* image rule, whatever chunk_size is next to the width of an image line.
C15_ChunkLossless ==
    chunks.kind # "none" =>
        /\ chunks.kind = "Ok"
        /\ chunks.id = value.id
        /\ Flatten(chunks.v) = DataBytes(value)

IsImage(x) == x.dir = "cmd" /\ x.id \in {65, 68}
HeaderLen(x) == IF x.id = 65 THEN 8 ELSE 11
ImgWidth(x) == IF x.id = 65 THEN x.f[3] ELSE x.f[2]
ImgFormatOf(x) == IF x.id = 65 THEN x.f[4] ELSE x.f[5]

\* Bytes of one pixel row: width at 8 bits per pixel, ceil(width / 2) at 4,
\* ceil(width / 8) at 1.
RowByteWidth(x) ==
    CASE ImgFormatOf(x) = 8 -> ImgWidth(x)
      [] ImgFormatOf(x) = 0 -> (ImgWidth(x) + 1) \div 2
      [] ImgFormatOf(x) = 1 -> (ImgWidth(x) + 7) \div 8

\* The largest multiple of row that is <= n.
LargestMultiple(row, n) == IF row = 0 THEN 0 ELSE (n \div row) * row

\* C16: for ImgSave and ImgStream (8, 4 and 1 bit per pixel) the first chunk
\* is the fixed header, 8 or 11 bytes, whatever chunk_size is, and every
\* chunk after it but the last has the length of the largest multiple of
\* the row byte width that is <= chunk_size.
C16_ImageChunking ==
    (chunks.kind # "none" /\ IsImage(value) /\ ImgFormatOf(value) \in {0, 1, 8}) =>
        /\ chunks.kind = "Ok"
        /\ Len(chunks.v) >= 1
        /\ chunks.v[1] = SubSeq(DataBytes(value), 1, HeaderLen(value))
        /\ \A i \in 2..(Len(chunks.v) - 1) :
              Len(chunks.v[i]) = LargestMultiple(RowByteWidth(value), chunk_size)

\* The default rule: pieces of n bytes, the last one maybe shorter.
DefaultSplit(bs, n) ==
    [i \in 1..((Len(bs) + n - 1) \div n) |->
        SubSeq(bs, (i - 1) * n + 1, Min(Len(bs), i * n))]

\* The row byte width as_bytes_chunks aligns an image to.
AlignOf(x) ==
    IF x.id = 65 THEN ImgFormatNbOfBytes(ImgFormatOf(x), ImgWidth(x))
    ELSE StreamImgFormatNbOfBytes(ImgFormatOf(x), ImgWidth(x))

\* C17: with chunk_size >= 1 smaller than the byte width of one row of an
\* ImgSave or ImgStream, as_bytes_chunks returns, without error, the header
\* chunk followed by the pixel data split by the default rule.
C17_SmallChunkSize ==
    (chunks.kind # "none" /\ IsImage(value) /\ chunk_size < AlignOf(value)) =>
        /\ chunks.kind = "Ok"
        /\ chunks.v =
              <<SubSeq(DataBytes(value), 1, HeaderLen(value))>>
                  \o DefaultSplit(Drop(DataBytes(value), HeaderLen(value)), chunk_size)

Redecoded == other.ok \/ other.err # "none"

\* C19: for every variant of Command and Response, from_data applied to
\* id() and data_bytes() gives the value back, a trailing read-to-end
\* sequence of length 0 and a text at or one byte under capacity included.
C19_CodecRoundTrip ==
    Redecoded =>
        /\ Id(value) \in (IF value.dir = "cmd" THEN CommandIds ELSE ResponseIds)
        /\ DataBytes(value) = WriteFields(LayoutOf(value), value.f)
        /\ other.ok /\ other.v = value

HasText(x) ==
    \E i \in DOMAIN LayoutOf(x) :
        \/ LayoutOf(x)[i].k = "cstr"
        \/ /\ LayoutOf(x)[i].k = "all"
           /\ \E m \in DOMAIN LayoutOf(x)[i].sub : LayoutOf(x)[i].sub[m].k = "cstr"

ShorterThanCapacity(text, cap) == Len(Utf8(text)) < cap - 1

\* C20: a value whose texts are all shorter than capacity - 1 (capacity 12
\* for names, 255 for free text) decodes from its encoding with exactly
\* those texts, and with the fields after them at their original values.
C20_ShortTextRoundTrip ==
    (/\ Redecoded /\ HasText(value)
     /\ TextsOf(LayoutOf(value), value.f, ShorterThanCapacity)) =>
        (other.ok /\ other.v = value)

-----------------------------------------------------------------------------
(* Fixed-capacity text encoding                                             *)

\* The value is a command whose last field is its only text: CfgRead and
\* its like (a name), LayoutDisplay and its like (an id, then a free text).
OneText(x) == x.dir = "cmd" /\ x.id \in {209, 210, 213, 98, 105}
TheText(x) == x.f[Len(x.f)]
TheCapacity(x) == LayoutOf(x)[Len(x.f)].n
BeforeTheText(x) == IF x.id \in {98, 105} THEN <<x.f[1]>> ELSE <<>>

\* The first min(length, cap) bytes of the text, then one NUL iff those are
\* fewer than cap.
CutAndTerminated(text, cap) ==
    LET src == Utf8(text)
        cut == SubSeq(src, 1, Min(Len(src), cap))
    IN  IF Len(cut) < cap THEN cut \o <<0>> ELSE cut

\* C21: write_fixed_size_cstr emits the first min(length, capacity) bytes
\* of the text and then one NUL iff fewer than capacity bytes were emitted:
\* never more than capacity bytes, no zero fill, and a text over capacity
\* is cut, not rejected.
C21_FixedTextEncoding ==
    (encoded.kind # "none" /\ OneText(value)) =>
        /\ encoded.kind = "Ok"
        /\ encoded.v = BeforeTheText(value)
                          \o CutAndTerminated(TheText(value), TheCapacity(value))

-----------------------------------------------------------------------------
(* Payloads of no byte, payloads with bytes to spare                        *)

\* The tag is one of a Command variant without fields.
ZeroFieldCommand(x) ==
    x.dir = "cmd" /\ x.id \in CommandIds /\ CommandLayout(x.id) = <<>>

\* C22: Command::from_data gives the variant of a zero-field tag both for
\* a payload of None and for an empty slice, and RawPacket::from_bytes
\* hands None to the codec for a frame without payload bytes.
C22_NoPayloadDecodes ==
    /\ (ZeroFieldCommand(input) /\ DataOf(input.data) = <<>>) =>
            /\ parsed.ok
            /\ parsed.v = [dir |-> "cmd", id |-> input.id, f |-> <<>>]
    /\ (input.via = "frame" /\ input.more = 0) => input.data = None

\* Clear was decoded from a frame that holds a query id and no payload.
C22_Witness ==
    /\ input.via = "frame" /\ input.id = 1 /\ input.data = None
    /\ parsed.ok /\ parsed.v = [dir |-> "cmd", id |-> 1, f |-> <<>>]

\* The tag is one of a variant without a read-to-end field.
NoReadToEnd(x) ==
    /\ x.dir # "none"
    /\ x.id \in (IF x.dir = "cmd" THEN CommandIds ELSE ResponseIds)
    /\ \A i \in DOMAIN LayoutOf(x) : LayoutOf(x)[i].k # "all"

\* The payload handed to from_data without the bytes appended to it.
WithoutMore(x) == SubSeq(DataOf(x.data), 1, Len(DataOf(x.data)) - x.more)

\* C30: for a variant without a read-to-end field, a payload that decodes
\* still decodes, and to the same value, with more bytes after it.
C30_TrailingBytesIgnored ==
    (input.data.some /\ NoReadToEnd(input)) =>
        LET base == FromDataIn(input.dir, input.id, Some(WithoutMore(input)))
        IN  base.ok => (parsed.ok /\ parsed.v = base.v)

\* A response of two fields or more was decoded from a payload with bytes
\* after its last field.
C30_Witness ==
    /\ input.dir = "resp" /\ input.more >= 1 /\ NoReadToEnd(input)
    /\ parsed.ok /\ Len(parsed.v.f) >= 2
    /\ FromDataIn("resp", input.id, Some(WithoutMore(input))).ok

-----------------------------------------------------------------------------
(* Format byte                                                              *)

\* The buffer with the 3 reserved bits of its format byte cleared.
ReservedCleared(bs) == [bs EXCEPT ![3] = @ % 32]

\* C25: the reserved bits are 0 in every frame to_bytes() emits for a
\* packet built by Packet::new or Packet::new_with_query_id, and
\* RawPacket::from_bytes gives the same outcome, with the same tag, length,
\* query id and payload, for a buffer and for the buffer with its reserved
\* bits cleared.
C25_ReservedBitsIgnored ==
    /\ origin = "to_bytes" => bytes[3] \div 32 = 0
    /\ (raw.kind # "none" /\ Len(bytes) >= 3) =>
            LET plain == RawPacketFromBytes(ReservedCleared(bytes))
            IN  /\ raw.kind = plain.kind /\ raw.err = plain.err
                /\ raw.kind = "Ok" =>
                        /\ raw.v.cmd_id = plain.v.cmd_id
                        /\ raw.v.length = plain.v.length
                        /\ raw.v.query_id = plain.v.query_id
                        /\ raw.v.data = plain.v.data

\* A buffer with reserved bits set was decoded to a packet with a query id
\* and a payload.
C25_Witness ==
    /\ origin = "wire" /\ raw.kind = "Ok"
    /\ bytes[3] \div 32 # 0
    /\ raw.v.query_id.some /\ raw.v.data.some

\* C27: a buffer that CommandPacket::from_bytes decodes to Ok(p) is what
\* p.to_bytes() emits: same format byte, length field, query id and
\* payload bytes.
C27_ReencodeIdentity ==
    (typed.dir = "cmd" /\ typed.res.kind = "Ok") =>
        PacketToBytes(typed.res.v) = bytes

-----------------------------------------------------------------------------
(* Client: reads by the application, failed and short writes                *)

\* The application's own read_tx_char() is being made (the step
\* ReadNotification, the only one that takes a buffer off the stream while
\* no call waits): the buffer read is Head(rx).
NotificationRead == pc = "idle" /\ rx # <<>> /\ rx' = Tail(rx)

\* C23: read_tx_char makes one read; it returns Empty when the read fails
\* and when it reports 0 bytes, and a decoded response only for bytes that
\* form a valid response frame.
C23_ReadNotificationEmpty ==
    [][NotificationRead =>
          /\ Len(rx') = Len(rx) - 1
          /\ (Head(rx).kind = "err" \/ Head(rx).bytes = <<>>) =>
                (call'.ret.kind = "Err" /\ call'.ret.err = "Empty")
          /\ call'.ret.kind = "Ok" => ValidResponseFrame(Head(rx))]_vars

\* A send or send_command_expect_response is being made: a frame is handed
\* to tx.write.
RequestMade == Len(tx') = Len(tx) + 1

\* C24: when tx.write fails, send and send_command_expect_response return
\* EmbeddedIOError, and send_command_expect_response returns it at once,
\* without a read of the notification stream.
C24_WriteFailureReturned ==
    [][(RequestMade /\ ~tx'[Len(tx')].ok) =>
          /\ call'.op \in {"send", "expect"}
          /\ call'.ended
          /\ call'.ret.kind = "Err" /\ call'.ret.err = "EmbeddedIOError"
          /\ pc' = "idle"
          /\ rx' = rx]_vars

\* send_command_expect_response returned EmbeddedIOError with a
\* notification waiting unread on the stream.
C24_Witness ==
    /\ call.op = "expect" /\ call.ended
    /\ call.ret.kind = "Err" /\ call.ret.err = "EmbeddedIOError"
    /\ tx # <<>> /\ ~tx[Len(tx)].ok
    /\ rx # <<>> /\ reads = 0

\* C28: every send and send_command_expect_response leaves the counter
\* one higher than it found it, whether the write succeeds or fails, and
\* the frame carries the counter it found: the id of a request whose write
\* failed is not used again.
C28_CounterAdvancesOnFailure ==
    [][RequestMade =>
          /\ query_id' = query_id + 1
          /\ call'.c = query_id
          /\ RawPacketFromBytes(tx'[Len(tx')].bytes).v.query_id
                = Some(QueryIdBytes(query_id))]_vars

\* A send_command_expect_response whose write failed took the id 0, and
\* the send after it the id 1.
C28_Witness ==
    /\ Len(tx) = 2 /\ query_id = 2
    /\ tx[1].op = "expect" /\ ~tx[1].ok
    /\ tx[2].op = "send"
    /\ RawPacketFromBytes(tx[1].bytes).v.query_id = Some(QueryIdBytes(0))
    /\ RawPacketFromBytes(tx[2].bytes).v.query_id = Some(QueryIdBytes(1))

\* C29: when send has returned Ok(()), the send stream has accepted every
\* byte of the frame.
C29_SendWritesWholeFrame ==
    (call.op = "send" /\ call.ret.kind = "Ok") =>
        Accepted(tx[Len(tx)]) = tx[Len(tx)].bytes

-----------------------------------------------------------------------------
(* Server                                                                   *)

\* C26: the frame send_response writes is response.to_bytes(), and its
\* query id is the one of the ResponsePacket handed in (none for
\* Packet::new), whatever commands were read before; read_data returns
\* Empty when its read yields nothing.
C26_ServerStateless ==
    /\ \A k \in DOMAIN server.tx :
          LET w == server.tx[k]
              r == RawPacketFromBytes(w.bytes)
          IN  /\ w.bytes = PacketToBytes(w.response)
              /\ r.kind = "Ok" /\ r.v.query_id = w.response.query_id
    /\ (server.op = "read_data"
          /\ (server.item.kind = "err" \/ server.item.bytes = <<>>)) =>
            (server.ret.kind = "Err" /\ server.ret.err = "Empty")

=============================================================================
